---------------------------- MODULE Spec2Model ----------------------------
(***************************************************************************)
(* Model of the session coordinator of bondage-club-bot-mcp                *)
(* (src/server.py): BotRuntime, the single owner of one MCPBCBot session   *)
(* and of the asyncio task that drives it, and MCPBCBot, the callbacks     *)
(* that fill the event buffers and the "last reply" fields.                *)
(*                                                                         *)
(* Scheduling is asyncio's: one cooperative scheduler, so the code between *)
(* two suspension points (a lock wait, an asyncio.sleep, an await of the   *)
(* protocol client or of the driving task) is one atomic action.           *)
(*                                                                         *)
(* BCBot (bondage_club_bot_core) is an external collaborator.  Its flags   *)
(* and private fields are state written by the Env* actions, which follow  *)
(* the protocol client's contract in the specification.  The coordinator   *)
(* picks, with hasattr, between a capability of the client and a manual    *)
(* polling loop; what is translated here is the code the repository holds,*)
(* the manual loop.  Time is counted in poll intervals of 0.2 s: elapsed   *)
(* and every timeout are numbers of intervals.                             *)
(***************************************************************************)
EXTENDS Integers, Sequences, FiniteSets, TLC

\* ------------------------------------------------------------------ bounds
NProcs      == 2   \* concurrent callers of the coordinator
MaxSessions == 2   \* sessions start() may construct in one behaviour
GateTimeout == 2   \* the login gate's timeout (15.0 s in the code), in intervals
MaxTimeout  == 2   \* largest timeout a caller passes to a command, in intervals
MaxEvents   == 150 \* events the client delivers in one behaviour
MaxMessages == 520 \* chat messages the client delivers in one behaviour
MaxRoster   == 3   \* other members the client knows of at one time

\* ------------------------------------------------------- program constants
EventsMaxLen   == 100   \* deque(maxlen=100) of MCPBCBot.recent_events
MessagesMaxLen == 500   \* deque(maxlen=500) of MCPBCBot.message_history

Procs    == 1..NProcs
Sessions == 1..MaxSessions
NoProc   == 0
NoBot    == 0      \* Python's None for _bot and _task
None     == "None" \* Python's None for a string-valued field
NoNumber == 0 - 1  \* Python's None for a number-valued field
Absent   == "Absent" \* a key that a dict does not hold
NoCreds  == 0      \* an empty username or password
NoArg    == 0      \* a call that has no argument apart from its timeout
NoClock  == [off |-> TRUE]   \* no polling loop is being followed

\* The credentials callers pass to start() and login().
Credentials == {1, 2}

\* --------------------------------------------------------------- variables
VARIABLES
    bot,              \* BotRuntime._bot: a session, or NoBot
    task,             \* BotRuntime._task: the task driving that session, or NoBot
    lockOwner,        \* BotRuntime._lock: the caller inside "async with", or NoProc
    lockWaiters,      \* callers queued on the lock, first come first served
    nbots,            \* sessions constructed so far (session ids are 1..nbots)
    taskState,        \* of each session's driving task
    is_connected,     \* BCBot.is_connected, per session
    is_logged_in,     \* BCBot.is_logged_in, per session
    login_requested,  \* BCBot._login_requested, per session
    player,           \* BCBot.player's MemberNumber, per session
    create_resp,      \* MCPBCBot.last_chatroom_create_response, per session
    join_resp,        \* BCBot._chatroom_join_response, per session
    search_done,      \* BCBot._chatroom_search_done, per session
    search_results,   \* MCPBCBot.last_chatroom_search_results, per session
    acct,             \* MCPBCBot.last_account_query_results[Query], per session
    room,             \* the Name of BCBot.current_chatroom, per session
    pc,               \* where each caller is suspended ("idle": between calls)
    op,               \* the coordinator method the caller runs, or ran last
    lbot,             \* the method's local variable bot
    elapsed,          \* the method's local variable elapsed, in intervals
    tmo,              \* the method's parameter timeout, in intervals
    ret,              \* what the caller's last call returned
    fx,               \* what the call did to the client: connect, login, ...
    replied,          \* whether the reply the call waits for arrived during it
    recent_events,    \* MCPBCBot.recent_events, per session, oldest first
    message_history,  \* MCPBCBot.message_history, per session, oldest first
    ev_seen,          \* events the client delivered so far, per session
    msg_seen,         \* chat messages the client delivered so far, per session
    others,           \* BCBot.others, per session: the roster, in insertion order
    username,         \* BCBot.username and password, per session
    arg,              \* the argument of the caller's call, apart from its timeout
    clock             \* one polling loop in floating point: timeout, elapsed, sleeps

coordVars == <<bot, task, lockOwner, lockWaiters, nbots, taskState>>
flagVars  == <<is_connected, is_logged_in, login_requested, player>>
replyVars == <<create_resp, join_resp, search_done, search_results, acct, room>>
botVars   == <<flagVars, replyVars>>
procVars  == <<pc, op, lbot, elapsed, tmo, ret, fx, replied, arg>>
bufVars   == <<recent_events, message_history, ev_seen, msg_seen>>
vars      == <<coordVars, botVars, procVars, bufVars, others, username, clock>>

TaskStates == {"unborn", "running", "cancelling", "cancelled", "finished"}

\* asyncio.Task.done(): the task returned, raised or was cancelled.
TaskDone(s) == taskState[s] \in {"cancelled", "finished"}

\* BotRuntime.running(): _task is not None and not _task.done().
running == task # NoBot /\ ~TaskDone(task)

\* BotRuntime._get_running_bot(): _bot if it is set and the task runs.
GetRunningBot == IF bot = NoBot \/ ~running THEN NoBot ELSE bot

NotRunningErr == [ok |-> FALSE, error |-> "bot is not running"]
Pending       == [pending |-> TRUE]

\* ------------------------------------------------------------------- Init
Init ==
    /\ bot = NoBot
    /\ task = NoBot
    /\ lockOwner = NoProc
    /\ lockWaiters = <<>>
    /\ nbots = 0
    /\ taskState = [s \in Sessions |-> "unborn"]
    /\ is_connected = [s \in Sessions |-> FALSE]
    /\ is_logged_in = [s \in Sessions |-> FALSE]
    /\ login_requested = [s \in Sessions |-> FALSE]
    /\ player = [s \in Sessions |-> NoNumber]
    /\ create_resp = [s \in Sessions |-> None]
    /\ join_resp = [s \in Sessions |-> None]
    /\ search_done = [s \in Sessions |-> FALSE]
    /\ search_results = [s \in Sessions |-> <<>>]
    /\ acct = [s \in Sessions |-> Absent]
    /\ room = [s \in Sessions |-> None]
    /\ pc = [p \in Procs |-> "idle"]
    /\ op = [p \in Procs |-> "none"]
    /\ lbot = [p \in Procs |-> NoBot]
    /\ elapsed = [p \in Procs |-> 0]
    /\ tmo = [p \in Procs |-> 0]
    /\ ret = [p \in Procs |-> Pending]
    /\ fx = [p \in Procs |-> {}]
    /\ replied = [p \in Procs |-> FALSE]
    /\ recent_events = [s \in Sessions |-> <<>>]
    /\ message_history = [s \in Sessions |-> <<>>]
    /\ ev_seen = [s \in Sessions |-> 0]
    /\ msg_seen = [s \in Sessions |-> 0]
    /\ others = [s \in Sessions |-> <<>>]
    /\ username = [s \in Sessions |-> NoCreds]
    /\ arg = [p \in Procs |-> NoArg]
    /\ clock = NoClock


\* ---------------------------------------------------------------- helpers
\* A call ends: the caller is between calls again and holds the result.
Return(p, r) ==
    /\ pc' = [pc EXCEPT ![p] = "idle"]
    /\ ret' = [ret EXCEPT ![p] = r]

\* A call suspends at the suspension point named by where.
Suspend(p, where) ==
    /\ pc' = [pc EXCEPT ![p] = where]
    /\ ret' = [ret EXCEPT ![p] = Pending]

\* asyncio.Lock: acquire() returns at once only when the lock is free and
\* nobody is queued; otherwise the caller queues and is woken in its turn.
LockFree == lockOwner = NoProc /\ lockWaiters = <<>>

\* The caller may start a call; session ids are capped at MaxSessions.
StartsWaiting == Cardinality({q \in Procs : pc[q] = "lock_wait" /\ op[q] = "start"})

\* -------------------------------------------------- BotRuntime.start, stop
\* start() inside the lock: the already-running answer, or a new session and
\* its driving task.  No suspension point: the lock is released on return.
\* (StartBodyNoCheck: the body without the test of running(), for comparison.)
StartBodyNoCheck(p, u) ==
    /\ lockOwner' = NoProc
    /\ nbots < MaxSessions
    /\ bot' = nbots + 1
    /\ task' = nbots + 1
    /\ nbots' = nbots + 1
    /\ taskState' = [taskState EXCEPT ![nbots + 1] = "running"]
    /\ username' = [username EXCEPT ![nbots + 1] = u]
    /\ fx' = [fx EXCEPT ![p] = {"construct"}]
    /\ Return(p, [ok |-> TRUE, message |-> "bot started"])

\* (StartBodyAdoptsCredentials: the body whose already-running answer passes
\* the caller's credentials to the session, for comparison.)
StartBodyAdoptsCredentials(p, u) ==
    /\ lockOwner' = NoProc
    /\ IF running /\ bot # NoBot
       THEN /\ Return(p, [ok |-> TRUE, message |-> "bot already running",
                          member_number |-> player[bot]])
            /\ fx' = [fx EXCEPT ![p] = {}]
            /\ username' = [username EXCEPT ![bot] = u]
            /\ UNCHANGED <<bot, task, nbots, taskState>>
       ELSE /\ nbots < MaxSessions
            /\ bot' = nbots + 1
            /\ task' = nbots + 1
            /\ nbots' = nbots + 1
            /\ taskState' = [taskState EXCEPT ![nbots + 1] = "running"]
            /\ username' = [username EXCEPT ![nbots + 1] = u]
            /\ fx' = [fx EXCEPT ![p] = {"construct"}]
            /\ Return(p, [ok |-> TRUE, message |-> "bot started"])

StartBody(p, u) ==
    /\ lockOwner' = NoProc
    /\ IF running /\ bot # NoBot
       THEN /\ Return(p, [ok |-> TRUE, message |-> "bot already running",
                          member_number |-> player[bot]])
            /\ fx' = [fx EXCEPT ![p] = {}]
            /\ UNCHANGED <<bot, task, nbots, taskState, username>>
       ELSE /\ nbots < MaxSessions
            /\ bot' = nbots + 1                       \* MCPBCBot(username=...)
            /\ task' = nbots + 1                      \* create_task(bot.run())
            /\ nbots' = nbots + 1
            /\ taskState' = [taskState EXCEPT ![nbots + 1] = "running"]
            /\ username' = [username EXCEPT ![nbots + 1] = u]
            /\ fx' = [fx EXCEPT ![p] = {"construct"}]
            /\ Return(p, [ok |-> TRUE, message |-> "bot started"])

\* stop() inside the lock, up to its await of the task.
\* (StopBodyNoClear: the body whose not-running branch keeps the stale
\* references, for comparison.)
StopBodyNoClear(p) ==
    IF ~running \/ task = NoBot
    THEN /\ UNCHANGED <<bot, task>>
         /\ lockOwner' = NoProc
         /\ Return(p, [ok |-> TRUE, message |-> "bot is not running"])
         /\ UNCHANGED taskState
    ELSE /\ taskState' = [taskState EXCEPT ![task] = "cancelling"]
         /\ lockOwner' = p
         /\ Suspend(p, "stop_await")
         /\ UNCHANGED <<bot, task>>

StopBody(p) ==
    IF ~running \/ task = NoBot
    THEN /\ bot' = NoBot
         /\ task' = NoBot
         /\ lockOwner' = NoProc
         /\ Return(p, [ok |-> TRUE, message |-> "bot is not running"])
         /\ UNCHANGED taskState
    ELSE /\ taskState' = [taskState EXCEPT ![task] = "cancelling"]  \* _task.cancel()
         /\ lockOwner' = p
         /\ Suspend(p, "stop_await")                                \* await _task
         /\ UNCHANGED <<bot, task>>

\* A caller invokes start(): it runs at once when the lock is free.
\* (StartIgnoresLock: a start() that does not take the lock, for comparison.)
StartIgnoresLock(p, u) ==
    /\ pc[p] = "idle"
    /\ nbots + StartsWaiting < MaxSessions
    /\ op' = [op EXCEPT ![p] = "start"]
    /\ lbot' = [lbot EXCEPT ![p] = NoBot]
    /\ elapsed' = [elapsed EXCEPT ![p] = 0]
    /\ arg' = [arg EXCEPT ![p] = u]
    /\ StartBody(p, u) /\ UNCHANGED lockWaiters
    /\ UNCHANGED <<tmo, botVars>>
    /\ replied' = [replied EXCEPT ![p] = FALSE]
    /\ UNCHANGED <<bufVars, others, clock>>

Start(p, u) ==
    /\ pc[p] = "idle"
    /\ nbots + StartsWaiting < MaxSessions
    /\ op' = [op EXCEPT ![p] = "start"]
    /\ lbot' = [lbot EXCEPT ![p] = NoBot]
    /\ elapsed' = [elapsed EXCEPT ![p] = 0]
    /\ arg' = [arg EXCEPT ![p] = u]
    /\ IF LockFree
       THEN StartBody(p, u) /\ UNCHANGED lockWaiters
       ELSE /\ lockWaiters' = Append(lockWaiters, p)
            /\ Suspend(p, "lock_wait")
            /\ fx' = [fx EXCEPT ![p] = {}]
            /\ UNCHANGED <<bot, task, lockOwner, nbots, taskState, username>>
    /\ UNCHANGED <<tmo, botVars>>
    /\ replied' = [replied EXCEPT ![p] = FALSE]
    /\ UNCHANGED <<bufVars, others, clock>>

\* A caller invokes stop().
Stop(p) ==
    /\ pc[p] = "idle"
    /\ op' = [op EXCEPT ![p] = "stop"]
    /\ lbot' = [lbot EXCEPT ![p] = NoBot]
    /\ elapsed' = [elapsed EXCEPT ![p] = 0]
    /\ fx' = [fx EXCEPT ![p] = {}]
    /\ IF LockFree
       THEN StopBody(p) /\ UNCHANGED lockWaiters
       ELSE /\ lockWaiters' = Append(lockWaiters, p)
            /\ Suspend(p, "lock_wait")
            /\ UNCHANGED <<bot, task, lockOwner, taskState>>
    /\ UNCHANGED <<nbots, tmo, botVars>>
    /\ replied' = [replied EXCEPT ![p] = FALSE]
    /\ arg' = [arg EXCEPT ![p] = NoArg]
    /\ UNCHANGED <<bufVars, others, username, clock>>

\* The lock was released and the first queued caller is woken.
LockResume(p) ==
    /\ pc[p] = "lock_wait"
    /\ lockOwner = NoProc
    /\ lockWaiters # <<>>
    /\ Head(lockWaiters) = p
    /\ lockWaiters' = Tail(lockWaiters)
    /\ IF op[p] = "start"
       THEN StartBody(p, arg[p])
       ELSE StopBody(p) /\ UNCHANGED <<nbots, fx, username>>
    /\ UNCHANGED <<op, lbot, elapsed, tmo, botVars>>
    /\ UNCHANGED <<replied, arg>>
    /\ UNCHANGED <<bufVars, others, clock>>

\* stop() resumes once the cancelled task has terminated (the CancelledError
\* its await raises is swallowed), clears the handle and releases the lock.
\* (StopDoneNoWait: a stop() that does not await the task, for comparison.)
StopDoneNoWait(p) ==
    /\ pc[p] = "stop_await"
    /\ bot' = NoBot
    /\ task' = NoBot
    /\ lockOwner' = NoProc
    /\ Return(p, [ok |-> TRUE, message |-> "bot stopped"])
    /\ UNCHANGED <<lockWaiters, nbots, taskState, op, lbot, elapsed, tmo, fx, botVars>>
    /\ UNCHANGED <<replied, arg>>
    /\ UNCHANGED <<bufVars, others, username, clock>>

StopDone(p) ==
    /\ pc[p] = "stop_await"
    /\ TaskDone(task)
    /\ bot' = NoBot
    /\ task' = NoBot
    /\ lockOwner' = NoProc
    /\ Return(p, [ok |-> TRUE, message |-> "bot stopped"])
    /\ UNCHANGED <<lockWaiters, nbots, taskState, op, lbot, elapsed, tmo, fx, botVars>>
    /\ UNCHANGED <<replied, arg>>
    /\ UNCHANGED <<bufVars, others, username, clock>>

\* ------------------------------------------------------------- the roster
\* BCBot.others maps a member identifier (Key) to the member's record.  A
\* record's own MemberNumber is the identifier, or is missing (NoNumber), or
\* is zero.  A dict keeps its insertion order, so the roster is a sequence.
KnownMembers ==
    {[Key |-> 1, MemberNumber |-> 1], [Key |-> 2, MemberNumber |-> 2],
     [Key |-> 3, MemberNumber |-> 3], [Key |-> 4, MemberNumber |-> NoNumber],
     [Key |-> 5, MemberNumber |-> 0]}

RosterKeys(r) == {r[i].Key : i \in 1..Len(r)}

\* Where the roster holds identifier k, or 0 when it does not.
RosterIndex(r, k) ==
    IF k \in RosterKeys(r)
    THEN (CHOOSE i \in 1..Len(r) : r[i].Key = k)
    ELSE 0

\* {"member_number": member.get("MemberNumber"), "name": member.get("Name", "")}
MemberSummary(m) == [member_number |-> m.MemberNumber, name |-> m.Key]

\* key=lambda x: x.get("member_number") or 0: None and 0 both count as 0.
SortKey(x) == IF x.member_number = NoNumber THEN 0 ELSE x.member_number

\* sorted() is stable: x goes behind every element whose key is not larger.
RECURSIVE InsertByKey(_, _)
InsertByKey(sorted, x) ==
    IF sorted = <<>> THEN <<x>>
    ELSE IF SortKey(Head(sorted)) <= SortKey(x)
    THEN <<Head(sorted)>> \o InsertByKey(Tail(sorted), x)
    ELSE <<x>> \o sorted

RECURSIVE SortByKey(_)
SortByKey(xs) ==
    IF xs = <<>> THEN <<>>
    ELSE InsertByKey(SortByKey(SubSeq(xs, 1, Len(xs) - 1)), xs[Len(xs)])

\* The members list of status(), of session b.
MembersUnsorted(b) == [i \in 1..Len(others[b]) |-> MemberSummary(others[b][i])]

Members(b) == SortByKey([i \in 1..Len(others[b]) |-> MemberSummary(others[b][i])])

\* The client learns of a member, or forgets one.
EnvRosterAdd(s, m) ==
    /\ taskState[s] = "running"
    /\ Len(others[s]) < MaxRoster
    /\ m.Key \notin RosterKeys(others[s])
    /\ others' = [others EXCEPT ![s] = Append(@, m)]
    /\ UNCHANGED <<coordVars, botVars, procVars, bufVars, username, clock>>

EnvRosterRemove(s, k) ==
    /\ taskState[s] = "running"
    /\ k \in RosterKeys(others[s])
    /\ others' = [others EXCEPT ![s] = SelectSeq(@, LAMBDA m : m.Key # k)]
    /\ UNCHANGED <<coordVars, botVars, procVars, bufVars, username, clock>>

\* ------------------------------------------------------- BotRuntime.status
\* status(): no await inside, so the whole method is one step.
StatusResultExtraKey ==
    [running |-> running,
     connected |-> bot # NoBot /\ is_connected[bot],
     logged_in |-> bot # NoBot /\ is_logged_in[bot]]

StatusResult ==
    IF bot = NoBot
    THEN [running |-> FALSE]
    ELSE [running |-> running,
          connected |-> is_connected[bot],
          logged_in |-> is_logged_in[bot],
          player |-> [member_number |-> player[bot]],
          chatroom |-> room[bot],
          member_count |-> Len(Members(bot)),
          members |-> Members(bot),
          recent_event_count |-> Len(recent_events[bot])]

\* (StatusTakesLock: a status() that needs the lock free, for comparison.)
StatusTakesLock(p) ==
    /\ pc[p] = "idle"
    /\ LockFree
    /\ op' = [op EXCEPT ![p] = "status"]
    /\ lbot' = [lbot EXCEPT ![p] = bot]
    /\ elapsed' = [elapsed EXCEPT ![p] = 0]
    /\ fx' = [fx EXCEPT ![p] = {}]
    /\ Return(p, StatusResult)
    /\ UNCHANGED <<coordVars, tmo, botVars>>
    /\ replied' = [replied EXCEPT ![p] = FALSE]
    /\ arg' = [arg EXCEPT ![p] = NoArg]
    /\ UNCHANGED <<bufVars, others, username, clock>>

Status(p) ==
    /\ pc[p] = "idle"
    /\ op' = [op EXCEPT ![p] = "status"]
    /\ lbot' = [lbot EXCEPT ![p] = bot]
    /\ elapsed' = [elapsed EXCEPT ![p] = 0]
    /\ fx' = [fx EXCEPT ![p] = {}]
    /\ Return(p, StatusResult)
    /\ UNCHANGED <<coordVars, tmo, botVars>>
    /\ replied' = [replied EXCEPT ![p] = FALSE]
    /\ arg' = [arg EXCEPT ![p] = NoArg]
    /\ UNCHANGED <<bufVars, others, username, clock>>


\* ------------------------------------------------ the protocol client (BCBot)
\* The driving task ends by itself: BCBot.run() returned or raised.
EnvTaskFinish(s) ==
    /\ taskState[s] = "running"
    /\ taskState' = [taskState EXCEPT ![s] = "finished"]
    /\ UNCHANGED <<bot, task, lockOwner, lockWaiters, nbots, botVars, procVars>>
    /\ UNCHANGED <<bufVars, others, username, clock>>

\* The cancelled task observes the cancellation at its suspension point and
\* unwinds.
EnvTaskCancelled(s) ==
    /\ taskState[s] = "cancelling"
    /\ taskState' = [taskState EXCEPT ![s] = "cancelled"]
    /\ UNCHANGED <<bot, task, lockOwner, lockWaiters, nbots, botVars, procVars>>
    /\ UNCHANGED <<bufVars, others, username, clock>>

\* The driving task connects.
EnvConnect(s) ==
    /\ taskState[s] = "running"
    /\ ~is_connected[s]
    /\ is_connected' = [is_connected EXCEPT ![s] = TRUE]
    /\ UNCHANGED <<coordVars, is_logged_in, login_requested, player, replyVars, procVars>>
    /\ UNCHANGED <<bufVars, others, username, clock>>

\* The connection drops: the client is neither connected nor logged in.
EnvDisconnect(s) ==
    /\ taskState[s] = "running"
    /\ is_connected[s]
    /\ is_connected' = [is_connected EXCEPT ![s] = FALSE]
    /\ is_logged_in' = [is_logged_in EXCEPT ![s] = FALSE]
    /\ login_requested' = [login_requested EXCEPT ![s] = FALSE]
    /\ UNCHANGED <<coordVars, player, replyVars, procVars>>
    /\ UNCHANGED <<bufVars, others, username, clock>>

\* The driving task sends the login request after connecting.
EnvLoginRequest(s) ==
    /\ taskState[s] = "running"
    /\ is_connected[s] /\ ~is_logged_in[s] /\ ~login_requested[s]
    /\ login_requested' = [login_requested EXCEPT ![s] = TRUE]
    /\ UNCHANGED <<coordVars, is_connected, is_logged_in, player, replyVars, procVars>>
    /\ UNCHANGED <<bufVars, others, username, clock>>

\* The server answers the outstanding login request.
EnvLoginResponse(s) ==
    /\ taskState[s] = "running"
    /\ is_connected[s] /\ login_requested[s]
    /\ login_requested' = [login_requested EXCEPT ![s] = FALSE]
    /\ \E accepted \in BOOLEAN :
          /\ is_logged_in' = [is_logged_in EXCEPT ![s] = accepted]
          /\ player' = [player EXCEPT ![s] = IF accepted THEN s ELSE @]
    /\ UNCHANGED <<coordVars, is_connected, replyVars, procVars>>
    /\ UNCHANGED <<bufVars, others, username, clock>>


\* --------------------------------------------------- the commands' results
Query == "OnlineFriends"   \* the account query the callers issue

GatedCommands == {"send_chat", "search_rooms", "create_room", "join_room",
                  "account_query"}

\* The predicate a command's polling loop waits for, on session b.
Ready(o, b) ==
    CASE o = "search_rooms"  -> search_done[b]
      [] o = "create_room"   -> create_resp[b] # None
      [] o = "join_room"     -> join_resp[b] # None
      [] o = "account_query" -> acct[b] # Absent
      [] o = "leave_room"    -> room[b] = None
      [] OTHER               -> TRUE

SearchResult(b) ==
    [ok |-> TRUE, count |-> Len(search_results[b]), rooms |-> search_results[b]]

CreateResultAnyReply(b) ==
    [ok |-> create_resp[b] # None, response |-> create_resp[b],
     current_chatroom |-> room[b]]

CreateResult(b) ==
    [ok |-> create_resp[b] = "ChatRoomCreated", response |-> create_resp[b],
     current_chatroom |-> room[b]]

JoinResult(b) ==
    [ok |-> join_resp[b] = "JoinedRoom", response |-> join_resp[b],
     current_chatroom |-> room[b]]

\* last_account_query_results.get(query): None when the key is absent.
AcctGet(b) == IF acct[b] = Absent THEN None ELSE acct[b]

AccountResult(b) ==
    [ok |-> AcctGet(b) # None, query |-> Query, result |-> AcctGet(b)]

\* leave_room leaves its loop by return when the room is empty, and falls
\* through to the timeout answer when elapsed reached the timeout.
LeaveResult(b, e, t) ==
    IF e < t
    THEN [ok |-> TRUE, message |-> "left chatroom"]
    ELSE [ok |-> FALSE, error |-> "leave timeout", current_chatroom |-> room[b]]

\* What the command returns when its wait ends with elapsed = e.
Result(o, b, e, t) ==
    CASE o = "send_chat"     -> [ok |-> TRUE, message |-> "sent"]
      [] o = "search_rooms"  -> SearchResult(b)
      [] o = "create_room"   -> CreateResult(b)
      [] o = "join_room"     -> JoinResult(b)
      [] o = "account_query" -> AccountResult(b)
      [] o = "leave_room"    -> LeaveResult(b, e, t)

\* One evaluation of a command's polling loop with elapsed = e: sleep one
\* more interval, or leave the loop and return.
Wait(p, o, b, e, t) ==
    /\ elapsed' = [elapsed EXCEPT ![p] = e]
    /\ IF e < t /\ ~Ready(o, b)
       THEN /\ Suspend(p, "poll")
            /\ fx' = [fx EXCEPT ![p] = @ \cup {"sleep"}]
       ELSE /\ Return(p, Result(o, b, e, t))
            /\ UNCHANGED fx

\* A command past the login gate, up to the await of its protocol request:
\* it clears the reply field it owns and sends the request.
Body(p, o, b, e, f) ==
    /\ lbot' = [lbot EXCEPT ![p] = b]
    /\ fx' = [fx EXCEPT ![p] = f \cup {"request"}]
    /\ Suspend(p, "req")
    /\ elapsed' = [elapsed EXCEPT ![p] = e]
    /\ search_results' = IF o = "search_rooms"
                         THEN [search_results EXCEPT ![b] = <<>>]
                         ELSE search_results
    /\ create_resp' = IF o = "create_room"
                      THEN [create_resp EXCEPT ![b] = None]
                      ELSE create_resp
    /\ acct' = IF o = "account_query"
               THEN [acct EXCEPT ![b] = Absent]
               ELSE acct

\* -------------------------------------------- BotRuntime._ensure_logged_in
GateExitAlwaysPasses(p, o, b, ok, e, f) == Body(p, o, b, e, f)

\* The gate's verdict: the command goes on, or returns the gate's error.
GateExit(p, o, b, ok, e, f) ==
    IF ok
    THEN Body(p, o, b, e, f)
    ELSE /\ Return(p, [ok |-> FALSE, error |-> "login failed or timeout"])
         /\ lbot' = [lbot EXCEPT ![p] = b]
         /\ elapsed' = [elapsed EXCEPT ![p] = e]
         /\ fx' = [fx EXCEPT ![p] = f]
         /\ UNCHANGED <<search_results, create_resp, acct>>

\* One evaluation of the gate's loop with elapsed = e.
GatePoll(p, o, b, e, f) ==
    IF ~is_logged_in[b] /\ e < GateTimeout
    THEN /\ Suspend(p, "gate_poll")
         /\ lbot' = [lbot EXCEPT ![p] = b]
         /\ elapsed' = [elapsed EXCEPT ![p] = e]
         /\ fx' = [fx EXCEPT ![p] = f \cup {"sleep"}]
         /\ UNCHANGED <<search_results, create_resp, acct>>
    ELSE GateExit(p, o, b, is_logged_in[b], e, f)

\* The gate from its login test on.
GateLoginNoFlagTest(p, o, b, f) ==
    IF ~login_requested[b]
    THEN /\ login_requested' = [login_requested EXCEPT ![b] = TRUE]
         /\ Suspend(p, "gate_login")
         /\ lbot' = [lbot EXCEPT ![p] = b]
         /\ fx' = [fx EXCEPT ![p] = f \cup {"login"}]
         /\ UNCHANGED <<elapsed, search_results, create_resp, acct>>
    ELSE /\ GatePoll(p, o, b, 0, f)
         /\ UNCHANGED login_requested

GateLogin(p, o, b, f) ==
    IF ~is_logged_in[b] /\ ~login_requested[b]
    THEN /\ login_requested' = [login_requested EXCEPT ![b] = TRUE]  \* bot.login()
         /\ Suspend(p, "gate_login")
         /\ lbot' = [lbot EXCEPT ![p] = b]
         /\ fx' = [fx EXCEPT ![p] = f \cup {"login"}]
         /\ UNCHANGED <<elapsed, search_results, create_resp, acct>>
    ELSE /\ GatePoll(p, o, b, 0, f)
         /\ UNCHANGED login_requested

\* The gate from its entry to its first suspension point.
GateEnterNoRunningTest(p, o) ==
    IF bot = NoBot
    THEN /\ Return(p, NotRunningErr)
         /\ lbot' = [lbot EXCEPT ![p] = NoBot]
         /\ fx' = [fx EXCEPT ![p] = {}]
         /\ UNCHANGED <<elapsed, login_requested, search_results, create_resp, acct>>
    ELSE IF ~is_connected[bot]
    THEN /\ Suspend(p, "gate_connect")
         /\ lbot' = [lbot EXCEPT ![p] = bot]
         /\ fx' = [fx EXCEPT ![p] = {"connect"}]
         /\ UNCHANGED <<elapsed, login_requested, search_results, create_resp, acct>>
    ELSE GateLogin(p, o, bot, {})

GateEnter(p, o) ==
    IF GetRunningBot = NoBot
    THEN /\ Return(p, NotRunningErr)
         /\ lbot' = [lbot EXCEPT ![p] = NoBot]
         /\ fx' = [fx EXCEPT ![p] = {}]
         /\ UNCHANGED <<elapsed, login_requested, search_results, create_resp, acct>>
    ELSE IF ~is_connected[GetRunningBot]
    THEN /\ Suspend(p, "gate_connect")                     \* bot.connect()
         /\ lbot' = [lbot EXCEPT ![p] = GetRunningBot]
         /\ fx' = [fx EXCEPT ![p] = {"connect"}]
         /\ UNCHANGED <<elapsed, login_requested, search_results, create_resp, acct>>
    ELSE GateLogin(p, o, GetRunningBot, {})

LoginError == [ok |-> FALSE, error |-> "login error"]

\* A caller invokes a login-gated command o with timeout t.
Call(p, o, t) ==
    /\ pc[p] = "idle"
    /\ op' = [op EXCEPT ![p] = o]
    /\ tmo' = [tmo EXCEPT ![p] = t]
    /\ GateEnter(p, o)
    /\ UNCHANGED <<coordVars, is_connected, is_logged_in, player,
                   join_resp, search_done, room>>
    /\ replied' = [replied EXCEPT ![p] = FALSE]
    /\ arg' = [arg EXCEPT ![p] = NoArg]
    /\ UNCHANGED <<bufVars, others, username, clock>>

\* connect() and the settle sleep after it are over: connect() connected,
\* failed, or raised.
GateConnectDone(p) ==
    /\ pc[p] = "gate_connect"
    /\ \E outcome \in {"connected", "failed", "raised"} :
          IF outcome = "raised"
          THEN /\ Return(p, LoginError)
               /\ UNCHANGED <<lbot, elapsed, fx, is_connected, login_requested,
                              search_results, create_resp, acct>>
          ELSE /\ is_connected' = [is_connected EXCEPT
                                      ![lbot[p]] = @ \/ outcome = "connected"]
               /\ GateLogin(p, op[p], lbot[p], fx[p])
    /\ UNCHANGED <<coordVars, is_logged_in, player, join_resp, search_done, room,
                   op, tmo>>
    /\ UNCHANGED <<replied, arg>>
    /\ UNCHANGED <<bufVars, others, username, clock>>

\* login() is over: the request is sent, or login() raised.
GateLoginDone(p) ==
    /\ pc[p] = "gate_login"
    /\ \E raised \in BOOLEAN :
          IF raised
          THEN /\ Return(p, LoginError)
               /\ UNCHANGED <<lbot, elapsed, fx, search_results, create_resp, acct>>
          ELSE GatePoll(p, op[p], lbot[p], 0, fx[p])
    /\ UNCHANGED <<coordVars, flagVars, join_resp, search_done, room, op, tmo>>
    /\ UNCHANGED <<replied, arg>>
    /\ UNCHANGED <<bufVars, others, username, clock>>

\* The gate wakes from one poll sleep.
GatePollWake(p) ==
    /\ pc[p] = "gate_poll"
    /\ GatePoll(p, op[p], lbot[p], elapsed[p] + 1, fx[p])
    /\ UNCHANGED <<coordVars, flagVars, join_resp, search_done, room, op, tmo>>
    /\ UNCHANGED <<replied, arg>>
    /\ UNCHANGED <<bufVars, others, username, clock>>

\* The await of the command's protocol request is over: the wait begins.
ReqDone(p) ==
    /\ pc[p] = "req"
    /\ Wait(p, op[p], lbot[p], 0, tmo[p])
    /\ UNCHANGED <<coordVars, botVars, op, lbot, tmo>>
    /\ UNCHANGED <<replied, arg>>
    /\ UNCHANGED <<bufVars, others, username, clock>>

\* The command wakes from one poll sleep.
PollWake(p) ==
    /\ pc[p] = "poll"
    /\ Wait(p, op[p], lbot[p], elapsed[p] + 1, tmo[p])
    /\ UNCHANGED <<coordVars, botVars, op, lbot, tmo>>
    /\ UNCHANGED <<replied, arg>>
    /\ UNCHANGED <<bufVars, others, username, clock>>


\* ---------------------------------------------------- BotRuntime.leave_room
\* leave_room needs a live session only, and sends nothing when the session
\* is in no room.
Leave(p, t) ==
    /\ pc[p] = "idle"
    /\ op' = [op EXCEPT ![p] = "leave_room"]
    /\ tmo' = [tmo EXCEPT ![p] = t]
    /\ lbot' = [lbot EXCEPT ![p] = GetRunningBot]
    /\ elapsed' = [elapsed EXCEPT ![p] = 0]
    /\ IF GetRunningBot = NoBot
       THEN /\ Return(p, NotRunningErr)
            /\ fx' = [fx EXCEPT ![p] = {}]
               ELSE IF room[GetRunningBot] = None
       THEN /\ Return(p, [ok |-> TRUE, message |-> "already not in chatroom"])
            /\ fx' = [fx EXCEPT ![p] = {}]
               ELSE /\ Suspend(p, "req")
            /\ fx' = [fx EXCEPT ![p] = {"request"}]
    /\ UNCHANGED <<coordVars, botVars>>
    /\ replied' = [replied EXCEPT ![p] = FALSE]
    /\ arg' = [arg EXCEPT ![p] = NoArg]
    /\ UNCHANGED <<bufVars, others, username, clock>>

\* -------------------------------------------------------- BotRuntime.login
\* The exception of connect() or login() leaves login() uncaught.
Raised == [raised |-> TRUE]

\* What login() returns when its loop ends on session b.
LoginResult(b) ==
    IF is_logged_in[b]
    THEN [ok |-> TRUE, member_number |-> player[b]]
    ELSE [ok |-> FALSE, error |-> "login failed or timeout"]

\* One evaluation of login()'s loop with elapsed = e.
LoginPoll(p, b, e, t) ==
    /\ elapsed' = [elapsed EXCEPT ![p] = e]
    /\ IF ~is_logged_in[b] /\ e < t
       THEN /\ Suspend(p, "login_poll")
            /\ fx' = [fx EXCEPT ![p] = @ \cup {"sleep"}]
       ELSE /\ Return(p, LoginResult(b))
            /\ UNCHANGED fx

\* login() invokes the client's login(), whatever the login flags are.
LoginInvoke(p, b, f) ==
    /\ login_requested' = [login_requested EXCEPT ![b] = TRUE]  \* bot.login()
    /\ Suspend(p, "login_login")
    /\ fx' = [fx EXCEPT ![p] = f \cup {"login"}]
    /\ UNCHANGED elapsed

\* The credentials login() leaves on the session: the argument u when given,
\* else the session's, else the environment's. One value stands for the
\* pair (username, password); NoCreds for a pair with an empty member.
Adopted(b, u, env) ==
    IF u # NoCreds THEN u
    ELSE IF username[b] # NoCreds THEN username[b]
    ELSE env

\* A caller invokes login(username, password, timeout), up to its first
\* suspension point.
Login(p, u, env, t) ==
    /\ pc[p] = "idle"
    /\ op' = [op EXCEPT ![p] = "login"]
    /\ tmo' = [tmo EXCEPT ![p] = t]
    /\ arg' = [arg EXCEPT ![p] = u]
    /\ replied' = [replied EXCEPT ![p] = FALSE]
    /\ lbot' = [lbot EXCEPT ![p] = GetRunningBot]
    /\ IF GetRunningBot = NoBot
       THEN /\ Return(p, NotRunningErr)
            /\ fx' = [fx EXCEPT ![p] = {}]
            /\ UNCHANGED <<elapsed, login_requested, username>>
       ELSE /\ username' = [username EXCEPT
                               ![GetRunningBot] = Adopted(GetRunningBot, u, env)]
            /\ IF Adopted(GetRunningBot, u, env) = NoCreds
               THEN /\ Return(p, [ok |-> FALSE,
                                  error |-> "username/password is empty"])
                    /\ fx' = [fx EXCEPT ![p] = {}]
                    /\ UNCHANGED <<elapsed, login_requested>>
               ELSE IF ~is_connected[GetRunningBot]
               THEN /\ Suspend(p, "login_connect")          \* bot.connect()
                    /\ fx' = [fx EXCEPT ![p] = {"connect"}]
                    /\ UNCHANGED <<elapsed, login_requested>>
               ELSE LoginInvoke(p, GetRunningBot, {})
    /\ UNCHANGED <<coordVars, is_connected, is_logged_in, player, replyVars>>
    /\ UNCHANGED <<bufVars, others, clock>>

\* connect() is over: it connected, returned false, or raised.
LoginConnectDone(p) ==
    /\ pc[p] = "login_connect"
    /\ \E outcome \in {"connected", "failed", "raised"} :
          CASE outcome = "raised" ->
                 /\ Return(p, Raised)
                 /\ UNCHANGED <<elapsed, fx, is_connected, login_requested>>
            [] outcome = "failed" ->
                 /\ Return(p, [ok |-> FALSE, error |-> "connect failed"])
                 /\ UNCHANGED <<elapsed, fx, is_connected, login_requested>>
            [] outcome = "connected" ->
                 /\ is_connected' = [is_connected EXCEPT ![lbot[p]] = TRUE]
                 /\ LoginInvoke(p, lbot[p], fx[p])
    /\ UNCHANGED <<coordVars, is_logged_in, player, replyVars, op, lbot, tmo>>
    /\ UNCHANGED <<replied, arg>>
    /\ UNCHANGED <<bufVars, others, username, clock>>

\* The client's login() is over: the request is sent, or login() raised.
LoginInvokeDone(p) ==
    /\ pc[p] = "login_login"
    /\ \E raised \in BOOLEAN :
          IF raised
          THEN /\ Return(p, Raised)
               /\ UNCHANGED <<elapsed, fx>>
          ELSE LoginPoll(p, lbot[p], 0, tmo[p])
    /\ UNCHANGED <<coordVars, botVars, op, lbot, tmo>>
    /\ UNCHANGED <<replied, arg>>
    /\ UNCHANGED <<bufVars, others, username, clock>>

\* login() wakes from one poll sleep.
LoginPollWake(p) ==
    /\ pc[p] = "login_poll"
    /\ LoginPoll(p, lbot[p], elapsed[p] + 1, tmo[p])
    /\ UNCHANGED <<coordVars, botVars, op, lbot, tmo>>
    /\ UNCHANGED <<replied, arg>>
    /\ UNCHANGED <<bufVars, others, username, clock>>

\* --------------------------------------------- the client's reply callbacks
\* The server replies to requests only: a callback fires on a session after
\* a caller's current or latest command sent the request it answers there,
\* during the command's wait or any time after it.
Asked(s, os) ==
    \E q \in Procs : op[q] \in os /\ lbot[q] = s /\ "request" \in fx[q]

\* The callers whose command o, in flight on session s, sees a reply arrive.
MarkReplied(s, o) ==
    replied' = [q \in Procs |->
                   replied[q] \/ (pc[q] \in {"req", "poll"} /\ op[q] = o /\ lbot[q] = s)]

inflightVars == <<pc, op, lbot, elapsed, tmo, ret, fx, arg>>

CreateReplies == {"ChatRoomCreated", "RoomAlreadyExist", "NotAString"}
JoinReplies   == {"JoinedRoom", "RoomFull"}
RoomName      == "Lobby"

\* MCPBCBot.on_ChatRoomCreateResponse(data): keeps data when it is a string.
OnChatRoomCreateResponse(s, data) ==
    /\ taskState[s] = "running"
    /\ Asked(s, {"create_room"})
    /\ create_resp' = [create_resp EXCEPT
                          ![s] = IF data = "NotAString" THEN None ELSE data]
    /\ UNCHANGED <<coordVars, flagVars, join_resp, search_done, search_results,
                   acct, room, inflightVars>>
    /\ MarkReplied(s, "create_room")
    /\ UNCHANGED <<bufVars, others, username, clock>>

\* MCPBCBot.on_ChatRoomSearchResult(data): keeps the rooms of a list, and the
\* client marks the search done.
OnChatRoomSearchResult(s, data) ==
    /\ taskState[s] = "running"
    /\ Asked(s, {"search_rooms"})
    /\ search_results' = [search_results EXCEPT ![s] = data]
    /\ search_done' = [search_done EXCEPT ![s] = TRUE]
    /\ UNCHANGED <<coordVars, flagVars, create_resp, join_resp, acct, room,
                   inflightVars>>
    /\ MarkReplied(s, "search_rooms")
    /\ UNCHANGED <<bufVars, others, username, clock>>

\* MCPBCBot.on_AccountQueryResult(data): stores data's Result (None when data
\* has none) under data's Query.
OnAccountQueryResult(s, result) ==
    /\ taskState[s] = "running"
    /\ Asked(s, {"account_query"})
    /\ acct' = [acct EXCEPT ![s] = result]
    /\ UNCHANGED <<coordVars, flagVars, create_resp, join_resp, search_done,
                   search_results, room, inflightVars>>
    /\ MarkReplied(s, "account_query")
    /\ UNCHANGED <<bufVars, others, username, clock>>

\* The client records the server's answer to a join request.
EnvJoinResponse(s, data) ==
    /\ taskState[s] = "running"
    /\ Asked(s, {"join_room"})
    /\ join_resp' = [join_resp EXCEPT ![s] = data]
    /\ UNCHANGED <<coordVars, flagVars, create_resp, search_done, search_results,
                   acct, room, inflightVars>>
    /\ MarkReplied(s, "join_room")
    /\ UNCHANGED <<bufVars, others, username, clock>>

\* The client enters the room it asked to create or join, or leaves the room
\* it is in (the leave's reply, or the server put it out).
EnvRoomSync(s) ==
    /\ taskState[s] = "running"
    /\ room[s] = None => Asked(s, {"create_room", "join_room"})
    /\ room' = [room EXCEPT ![s] = IF @ = None THEN RoomName ELSE None]
    /\ UNCHANGED <<coordVars, flagVars, create_resp, join_resp, search_done,
                   search_results, acct, inflightVars>>
    /\ MarkReplied(s, "leave_room")
    /\ UNCHANGED <<bufVars, others, username, clock>>

\* ------------------------------------------------------------ the lifecycle
\* Callers start, stop and ask for the status while the driving task may end
\* by itself.
Next ==
    \/ \E p \in Procs, u \in Credentials : Start(p, u)
    \/ \E p \in Procs : Stop(p)
    \/ \E p \in Procs : LockResume(p)
    \/ \E p \in Procs : StopDone(p)
    \/ \E p \in Procs : Status(p)
    \/ \E s \in Sessions : EnvTaskFinish(s)
    \/ \E s \in Sessions : EnvTaskCancelled(s)

Spec == Init /\ [][Next]_vars

\* ------------------------------------------------------------ the login gate
\* One session, constructed by start(), whose client connects, logs in and
\* drops the connection while callers send chat messages through the gate.
InitLive ==
    /\ bot = 1
    /\ task = 1
    /\ lockOwner = NoProc
    /\ lockWaiters = <<>>
    /\ nbots = 1
    /\ taskState = [s \in Sessions |-> IF s = 1 THEN "running" ELSE "unborn"]
    /\ is_connected = [s \in Sessions |-> FALSE]
    /\ is_logged_in = [s \in Sessions |-> FALSE]
    /\ login_requested = [s \in Sessions |-> FALSE]
    /\ player = [s \in Sessions |-> NoNumber]
    /\ create_resp = [s \in Sessions |-> None]
    /\ join_resp = [s \in Sessions |-> None]
    /\ search_done = [s \in Sessions |-> FALSE]
    /\ search_results = [s \in Sessions |-> <<>>]
    /\ acct = [s \in Sessions |-> Absent]
    /\ room = [s \in Sessions |-> None]
    /\ pc = [p \in Procs |-> "idle"]
    /\ op = [p \in Procs |-> "none"]
    /\ lbot = [p \in Procs |-> NoBot]
    /\ elapsed = [p \in Procs |-> 0]
    /\ tmo = [p \in Procs |-> 0]
    /\ ret = [p \in Procs |-> Pending]
    /\ fx = [p \in Procs |-> {}]
    /\ replied = [p \in Procs |-> FALSE]
    /\ recent_events = [s \in Sessions |-> <<>>]
    /\ message_history = [s \in Sessions |-> <<>>]
    /\ ev_seen = [s \in Sessions |-> 0]
    /\ msg_seen = [s \in Sessions |-> 0]
    /\ others = [s \in Sessions |-> <<>>]
    /\ username = [s \in Sessions |-> IF s = 1 THEN 1 ELSE NoCreds]
    /\ arg = [p \in Procs |-> NoArg]
    /\ clock = NoClock

NextGate ==
    \/ \E p \in Procs : Call(p, "send_chat", 0)
    \/ \E p \in Procs : GateConnectDone(p)
    \/ \E p \in Procs : GateLoginDone(p)
    \/ \E p \in Procs : GatePollWake(p)
    \/ \E p \in Procs : ReqDone(p)
    \/ \E s \in Sessions : EnvTaskFinish(s)
    \/ \E s \in Sessions : EnvConnect(s)
    \/ \E s \in Sessions : EnvDisconnect(s)
    \/ \E s \in Sessions : EnvLoginRequest(s)
    \/ \E s \in Sessions : EnvLoginResponse(s)

SpecGate == InitLive /\ [][NextGate]_vars

\* The caller of the room commands.
RoomCaller == CHOOSE p \in Procs : \A q \in Procs : p <= q

\* ------------------------------------------------- login() beside the gate
\* One caller sends a chat message through the gate while another calls
\* login(), on a session whose client connects, answers login requests and
\* drops the connection.
LoginCaller == CHOOSE p \in Procs : p # RoomCaller

NextLogin ==
    \/ Call(RoomCaller, "send_chat", 0)
    \/ GateConnectDone(RoomCaller)
    \/ GateLoginDone(RoomCaller)
    \/ GatePollWake(RoomCaller)
    \/ ReqDone(RoomCaller)
    \/ \E u, env \in {NoCreds} \cup Credentials, t \in {0, MaxTimeout} :
          Login(LoginCaller, u, env, t)
    \/ LoginConnectDone(LoginCaller)
    \/ LoginInvokeDone(LoginCaller)
    \/ LoginPollWake(LoginCaller)
    \/ \E s \in Sessions : EnvConnect(s)
    \/ \E s \in Sessions : EnvDisconnect(s)
    \/ \E s \in Sessions : EnvLoginResponse(s)
    \/ \E s \in Sessions : EnvTaskFinish(s)

SpecLogin == InitLive /\ [][NextLogin]_vars

\* --------------------------------------------------------- the room commands
\* Callers issue the room and account commands, on a coordinator that was
\* never started or on a session that is connected and logged in, while the
\* client's reply callbacks fire and the driving task may end by itself.
InitLoggedIn ==
    /\ bot = 1
    /\ task = 1
    /\ lockOwner = NoProc
    /\ lockWaiters = <<>>
    /\ nbots = 1
    /\ taskState = [s \in Sessions |-> IF s = 1 THEN "running" ELSE "unborn"]
    /\ is_connected = [s \in Sessions |-> s = 1]
    /\ is_logged_in = [s \in Sessions |-> s = 1]
    /\ login_requested = [s \in Sessions |-> FALSE]
    /\ player = [s \in Sessions |-> IF s = 1 THEN 1 ELSE NoNumber]
    /\ create_resp = [s \in Sessions |-> None]
    /\ join_resp = [s \in Sessions |-> None]
    /\ search_done = [s \in Sessions |-> FALSE]
    /\ search_results = [s \in Sessions |-> <<>>]
    /\ acct = [s \in Sessions |-> Absent]
    /\ room = [s \in Sessions |-> None]
    /\ pc = [p \in Procs |-> "idle"]
    /\ op = [p \in Procs |-> "none"]
    /\ lbot = [p \in Procs |-> NoBot]
    /\ elapsed = [p \in Procs |-> 0]
    /\ tmo = [p \in Procs |-> 0]
    /\ ret = [p \in Procs |-> Pending]
    /\ fx = [p \in Procs |-> {}]
    /\ replied = [p \in Procs |-> FALSE]
    /\ recent_events = [s \in Sessions |-> <<>>]
    /\ message_history = [s \in Sessions |-> <<>>]
    /\ ev_seen = [s \in Sessions |-> 0]
    /\ msg_seen = [s \in Sessions |-> 0]
    /\ others = [s \in Sessions |-> <<>>]
    /\ username = [s \in Sessions |-> IF s = 1 THEN 1 ELSE NoCreds]
    /\ arg = [p \in Procs |-> NoArg]
    /\ clock = NoClock

NextRoom ==
    \/ \E o \in GatedCommands, t \in 0..MaxTimeout : Call(RoomCaller, o, t)
    \/ \E t \in 0..MaxTimeout : Leave(RoomCaller, t)
    \/ ReqDone(RoomCaller)
    \/ PollWake(RoomCaller)
    \/ \E s \in Sessions : EnvTaskFinish(s)
    \/ \E s \in Sessions, d \in CreateReplies : OnChatRoomCreateResponse(s, d)
    \/ \E s \in Sessions, d \in {<<>>, <<RoomName>>} : OnChatRoomSearchResult(s, d)
    \/ \E s \in Sessions, d \in {None, "Friends"} : OnAccountQueryResult(s, d)
    \/ \E s \in Sessions, d \in JoinReplies : EnvJoinResponse(s, d)
    \/ \E s \in Sessions : EnvRoomSync(s)

SpecRoom == (Init \/ InitLoggedIn) /\ [][NextRoom]_vars


\* --------------------------------------------------------- the event buffers
\* collections.deque(maxlen=n).append(x): a full deque drops its oldest item.
DequeAppendNoEvict(q, x, maxlen) == Append(q, x)

DequeAppend(q, x, maxlen) ==
    IF Len(q) >= maxlen THEN Append(Tail(q), x) ELSE Append(q, x)

\* MCPBCBot.customized_event_handler(data): every event is kept.  The events
\* of a session are told apart by their order of arrival.
CustomizedEventHandler(s) ==
    /\ taskState[s] = "running"
    /\ ev_seen[s] < MaxEvents
    /\ ev_seen' = [ev_seen EXCEPT ![s] = @ + 1]
    /\ recent_events' = [recent_events EXCEPT
           ![s] = DequeAppend(@, [Seq |-> ev_seen[s] + 1], EventsMaxLen)]
    /\ UNCHANGED <<coordVars, botVars, procVars, message_history, msg_seen,
                   others, username, clock>>

\* dict(data) with its ReceivedAt set to the time of receipt, which is the
\* message's order of arrival.
StampKeepsOld(data, now) ==
    [k \in DOMAIN data \cup {"ReceivedAt"} |->
        IF k \in DOMAIN data THEN data[k] ELSE now]

Stamp(data, now) ==
    [k \in DOMAIN data \cup {"ReceivedAt"} |->
        IF k = "ReceivedAt" THEN now ELSE data[k]]

\* The payloads of the n-th chat message: a dict, a dict that already has a
\* ReceivedAt, or something that is no dict.
MessagePayloads(n) ==
    {[isdict |-> TRUE, dict |-> [Content |-> n]],
     [isdict |-> TRUE, dict |-> [Content |-> n, ReceivedAt |-> 0]],
     [isdict |-> FALSE, dict |-> [Content |-> n]]}

\* MCPBCBot.on_ChatRoomMessage(data): a dict is copied, stamped and kept;
\* anything else is passed on and not kept.
OnChatRoomMessage(s, data) ==
    /\ taskState[s] = "running"
    /\ msg_seen[s] < MaxMessages
    /\ IF data.isdict
       THEN /\ msg_seen' = [msg_seen EXCEPT ![s] = @ + 1]
            /\ message_history' = [message_history EXCEPT
                   ![s] = DequeAppend(@, Stamp(data.dict, msg_seen[s] + 1),
                                      MessagesMaxLen)]
       ELSE UNCHANGED <<message_history, msg_seen>>
    /\ UNCHANGED <<coordVars, botVars, procVars, recent_events, ev_seen,
                   others, username, clock>>

\* The events of one live session.
NextEvents ==
    \/ \E s \in Sessions : CustomizedEventHandler(s)
    \/ \E s \in Sessions : EnvTaskFinish(s)

SpecEvents == InitLive /\ [][NextEvents]_vars

\* The chat messages of one live session.
NextMessages ==
    \/ \E s \in Sessions : \E d \in MessagePayloads(msg_seen[s] + 1) :
          OnChatRoomMessage(s, d)
    \/ \E s \in Sessions : EnvTaskFinish(s)

SpecMessages == InitLive /\ [][NextMessages]_vars

\* ------------------------------------------------------ the read operations
\* max(1, min(limit, cap)).
SafeLimitNoFloor(limit, cap) == IF limit < cap THEN limit ELSE cap

SafeLimit(limit, cap) ==
    LET m == IF limit < cap THEN limit ELSE cap
    IN  IF m > 1 THEN m ELSE 1

\* list(q)[-n:], as Python slices: the last n items for n >= 1 (all of them
\* when there are fewer), everything for n = 0, and all but the first -n
\* items for n < 0.
TailSlice(q, n) ==
    IF n > 0
    THEN SubSeq(q, (IF Len(q) > n THEN Len(q) - n + 1 ELSE 1), Len(q))
    ELSE SubSeq(q, 1 - n, Len(q))

\* A method without suspension point reads session b and returns r.
Read(p, o, a, b, r) ==
    /\ pc[p] = "idle"
    /\ op' = [op EXCEPT ![p] = o]
    /\ arg' = [arg EXCEPT ![p] = a]
    /\ lbot' = [lbot EXCEPT ![p] = b]
    /\ elapsed' = [elapsed EXCEPT ![p] = 0]
    /\ fx' = [fx EXCEPT ![p] = {}]
    /\ replied' = [replied EXCEPT ![p] = FALSE]
    /\ Return(p, r)
    /\ UNCHANGED <<coordVars, tmo, botVars, bufVars, others, username, clock>>

\* recent_events(limit): reads _bot whether or not its task still runs.  The
\* method returns a bare list, held here under the key events.
RecentEventsResult(limit) ==
    IF bot = NoBot
    THEN [events |-> <<>>]
    ELSE [events |-> TailSlice(recent_events[bot], SafeLimit(limit, EventsMaxLen))]

RecentEvents(p, limit) == Read(p, "recent_events", limit, bot, RecentEventsResult(limit))

\* get_chat_history(limit).
ChatHistoryResult(limit) ==
    IF GetRunningBot = NoBot
    THEN NotRunningErr
    ELSE LET messages == TailSlice(message_history[GetRunningBot],
                                   SafeLimit(limit, MessagesMaxLen))
         IN  [ok |-> TRUE, count |-> Len(messages), messages |-> messages]

GetChatHistory(p, limit) ==
    Read(p, "get_chat_history", limit, GetRunningBot, ChatHistoryResult(limit))

\* A character record: bot.player, a record of the roster, or None.
NoCharacter == [MemberNumber |-> NoNumber, Nobody |-> TRUE]
PlayerRecord(b) == [MemberNumber |-> player[b], Self |-> TRUE]

\* bot.player if it has that MemberNumber, else bot.others.get(member_number).
Character(b, n) ==
    IF player[b] = n THEN PlayerRecord(b)
    ELSE IF RosterIndex(others[b], n) # 0
    THEN others[b][RosterIndex(others[b], n)]
    ELSE NoCharacter

CharacterDataResultAlwaysOk(n) ==
    IF GetRunningBot = NoBot
    THEN NotRunningErr
    ELSE [ok |-> TRUE, character |-> Character(GetRunningBot, n)]

\* get_character_data(member_number): one character, or for member_number <= 0
\* a copy of the roster with the player added under its own number; the
\* characters are told by their keys.
CharacterDataResult(n) ==
    IF GetRunningBot = NoBot
    THEN NotRunningErr
    ELSE IF n > 0
    THEN [ok |-> Character(GetRunningBot, n) # NoCharacter,
          character |-> Character(GetRunningBot, n)]
    ELSE LET keys == RosterKeys(others[GetRunningBot]) \cup
                     (IF player[GetRunningBot] # NoNumber
                      THEN {player[GetRunningBot]} ELSE {})
         IN  [ok |-> TRUE, count |-> Cardinality(keys), characters |-> keys]

GetCharacterData(p, n) ==
    Read(p, "get_character_data", n, GetRunningBot, CharacterDataResult(n))

\* get_room_member_detail(member_number).  The result's is_in_player_order is
\* left out: of the room record the model holds the Name only.
RoomMemberDetailResult(n) ==
    IF GetRunningBot = NoBot
    THEN NotRunningErr
    ELSE IF n <= 0
    THEN [ok |-> FALSE, error |-> "member_number must be > 0"]
    ELSE IF Character(GetRunningBot, n) = NoCharacter
    THEN [ok |-> FALSE, error |-> "member not found in local cache",
          chatroom |-> room[GetRunningBot]]
    ELSE [ok |-> TRUE, chatroom |-> room[GetRunningBot], member_number |-> n,
          is_self |-> player[GetRunningBot] = n,
          character |-> Character(GetRunningBot, n)]

GetRoomMemberDetail(p, n) ==
    Read(p, "get_room_member_detail", n, GetRunningBot, RoomMemberDetailResult(n))

\* get_current_room().
CurrentRoomResult ==
    IF GetRunningBot = NoBot
    THEN NotRunningErr
    ELSE [ok |-> TRUE, chatroom |-> room[GetRunningBot]]

GetCurrentRoom(p) ==
    Read(p, "get_current_room", NoArg, GetRunningBot, CurrentRoomResult)

\* The limits and member numbers the callers pass.
Limits == {0 - 1, 0, 1, 2, EventsMaxLen, EventsMaxLen + 1,
           MessagesMaxLen, MessagesMaxLen + 1}
MemberArgs == {0 - 1, 0, 1, 2, 4, 6}

\* The buffers after n events and k chat messages were delivered.
EventsAfter(n) ==
    [i \in 1..(IF n < EventsMaxLen THEN n ELSE EventsMaxLen) |->
        [Seq |-> (IF n < EventsMaxLen THEN 0 ELSE n - EventsMaxLen) + i]]

MessagesAfter(k) ==
    [i \in 1..(IF k < MessagesMaxLen THEN k ELSE MessagesMaxLen) |->
        [Content    |-> (IF k < MessagesMaxLen THEN 0 ELSE k - MessagesMaxLen) + i,
         ReceivedAt |-> (IF k < MessagesMaxLen THEN 0 ELSE k - MessagesMaxLen) + i]]

\* The rosters the reads start from.
StartRosters ==
    {<<>>, <<[Key |-> 2, MemberNumber |-> 2]>>,
     <<[Key |-> 3, MemberNumber |-> 3], [Key |-> 1, MemberNumber |-> 1],
       [Key |-> 4, MemberNumber |-> NoNumber]>>}

\* A live session that never logged in, or one that is logged in, with what
\* its callbacks have stored by then.
InitReads ==
    \E logged \in BOOLEAN, n \in {2, MaxEvents}, k \in {2, MaxMessages},
       r \in StartRosters, inroom \in BOOLEAN :
       /\ bot = 1
       /\ task = 1
       /\ lockOwner = NoProc
       /\ lockWaiters = <<>>
       /\ nbots = 1
       /\ taskState = [s \in Sessions |-> IF s = 1 THEN "running" ELSE "unborn"]
       /\ is_connected = [s \in Sessions |-> s = 1 /\ logged]
       /\ is_logged_in = [s \in Sessions |-> s = 1 /\ logged]
       /\ login_requested = [s \in Sessions |-> FALSE]
       /\ player = [s \in Sessions |-> IF s = 1 /\ logged THEN 1 ELSE NoNumber]
       /\ create_resp = [s \in Sessions |-> None]
       /\ join_resp = [s \in Sessions |-> None]
       /\ search_done = [s \in Sessions |-> FALSE]
       /\ search_results = [s \in Sessions |-> <<>>]
       /\ acct = [s \in Sessions |-> Absent]
       /\ room = [s \in Sessions |->
                    IF s = 1 /\ logged /\ inroom THEN RoomName ELSE None]
       /\ pc = [p \in Procs |-> "idle"]
       /\ op = [p \in Procs |-> "none"]
       /\ lbot = [p \in Procs |-> NoBot]
       /\ elapsed = [p \in Procs |-> 0]
       /\ tmo = [p \in Procs |-> 0]
       /\ ret = [p \in Procs |-> Pending]
       /\ fx = [p \in Procs |-> {}]
       /\ replied = [p \in Procs |-> FALSE]
       /\ recent_events = [s \in Sessions |->
                             IF s = 1 /\ logged THEN EventsAfter(n) ELSE <<>>]
       /\ message_history = [s \in Sessions |->
                               IF s = 1 /\ logged THEN MessagesAfter(k) ELSE <<>>]
       /\ ev_seen = [s \in Sessions |-> IF s = 1 /\ logged THEN n ELSE 0]
       /\ msg_seen = [s \in Sessions |-> IF s = 1 /\ logged THEN k ELSE 0]
       /\ others = [s \in Sessions |-> IF s = 1 /\ logged /\ inroom THEN r ELSE <<>>]
       /\ username = [s \in Sessions |-> IF s = 1 THEN 1 ELSE NoCreds]
       /\ arg = [p \in Procs |-> NoArg]
       /\ clock = NoClock

\* One caller reads, on a coordinator that was never started or on a live
\* session, while the connection may drop and the driving task may end.
NextReads ==
    \/ \E l \in Limits : RecentEvents(RoomCaller, l)
    \/ \E l \in Limits : GetChatHistory(RoomCaller, l)
    \/ \E n \in MemberArgs : GetCharacterData(RoomCaller, n)
    \/ \E n \in MemberArgs : GetRoomMemberDetail(RoomCaller, n)
    \/ GetCurrentRoom(RoomCaller)
    \/ \E s \in Sessions : EnvDisconnect(s)
    \/ \E s \in Sessions : EnvTaskFinish(s)

SpecReads == (Init \/ InitReads) /\ [][NextReads]_vars

\* ------------------------------------------------------------- the roster
\* One caller asks for the status of a live session while the client's
\* roster changes.
NextRoster ==
    \/ Status(RoomCaller)
    \/ \E s \in Sessions, m \in KnownMembers : EnvRosterAdd(s, m)
    \/ \E s \in Sessions, m \in KnownMembers : EnvRosterRemove(s, m.Key)
    \/ \E s \in Sessions : EnvTaskFinish(s)

SpecRoster == InitLive /\ [][NextRoster]_vars

\* ------------------------------------------------- status beside the rest
\* One caller joins a room on a logged-in session and stops the session;
\* another caller asks for the status meanwhile.
StatusCaller == CHOOSE p \in Procs : p # RoomCaller

NextStatus ==
    \/ Stop(RoomCaller)
    \/ StopDone(RoomCaller)
    \/ \E t \in 0..MaxTimeout : Call(RoomCaller, "join_room", t)
    \/ ReqDone(RoomCaller)
    \/ PollWake(RoomCaller)
    \/ Status(StatusCaller)
    \/ \E s \in Sessions : EnvTaskCancelled(s)
    \/ \E s \in Sessions, d \in JoinReplies : EnvJoinResponse(s, d)
    \/ \E s \in Sessions : EnvRoomSync(s)

SpecStatus == InitLoggedIn /\ [][NextStatus]_vars

\* ------------------------------------------------ stop() beside a command
\* One caller sends a chat message through the gate while another stops the
\* session.
Stopper == CHOOSE p \in Procs : p # RoomCaller

NextTeardown ==
    \/ Call(RoomCaller, "send_chat", 0)
    \/ GateConnectDone(RoomCaller)
    \/ GateLoginDone(RoomCaller)
    \/ GatePollWake(RoomCaller)
    \/ ReqDone(RoomCaller)
    \/ Stop(Stopper)
    \/ StopDone(Stopper)
    \/ \E s \in Sessions : EnvTaskCancelled(s)
    \/ \E s \in Sessions : EnvConnect(s)
    \/ \E s \in Sessions : EnvLoginResponse(s)

SpecTeardown == InitLive /\ [][NextTeardown]_vars

\* ------------------------------------------------ concurrent create_room
\* Callers create rooms on one logged-in session at the same time; the
\* server answers each request with the success marker.
NextCreate ==
    \/ \E p \in Procs, t \in 0..MaxTimeout : Call(p, "create_room", t)
    \/ \E p \in Procs : ReqDone(p)
    \/ \E p \in Procs : PollWake(p)
    \/ \E s \in Sessions : OnChatRoomCreateResponse(s, "ChatRoomCreated")

SpecCreate == InitLoggedIn /\ [][NextCreate]_vars

\* ------------------------------------------- the polling loops' arithmetic
\* elapsed, interval and timeout are Python floats (IEEE 754 binary64).  A
\* float between 0 and 64 is held exactly as hi * 2^30 + lo units of 2^-55.
Two30 == 1073741824
MaxSeconds == 15   \* the longest timeout followed, in seconds

\* interval = 0.2, i.e. the binary64 nearest to 0.2: 7205759403792794 * 2^-55.
Interval == [hi |-> 6710886, lo |-> 429496730]

\* elapsed = 0.0
Zero == [hi |-> 0, lo |-> 0]

\* The float of a whole number of seconds: k * 2^55 units.
Seconds(k) == [hi |-> k * 33554432, lo |-> 0]

RECURSIVE BitLen(_)
BitLen(n) == IF n = 0 THEN 0 ELSE 1 + BitLen(n \div 2)

RECURSIVE Pow2(_)
Pow2(k) == IF k = 0 THEN 1 ELSE 2 * Pow2(k - 1)

\* The spacing, in units, of the binary64 numbers around a value whose high
\* part is hi: a significand has 53 bits.
Granule(hi) == IF BitLen(hi) <= 23 THEN 1 ELSE Pow2(BitLen(hi) - 23)

\* x + y in binary64: the exact sum, rounded to the nearest representable
\* number, ties to the even significand.
FAdd(x, y) ==
    LET hiS  == x.hi + y.hi + (x.lo + y.lo) \div Two30
        loS  == (x.lo + y.lo) % Two30
        g    == Granule(hiS)
        r    == loS % g
        down == loS - r
        near == IF 2 * r < g THEN down
                ELSE IF 2 * r > g THEN down + g
                ELSE IF (down \div g) % 2 = 0 THEN down
                ELSE down + g
    IN  [hi |-> hiS + near \div Two30, lo |-> near % Two30]

\* x < y
FLess(x, y) == x.hi < y.hi \/ (x.hi = y.hi /\ x.lo < y.lo)

\* A command enters its polling loop with a timeout of k seconds; the reply
\* it waits for never arrives.
PollEnter(k) ==
    /\ clock = NoClock
    /\ clock' = [timeout |-> k, elapsed |-> Zero, sleeps |-> 0, over |-> FALSE]
    /\ UNCHANGED <<coordVars, botVars, procVars, bufVars, others, username>>

\* One iteration: while elapsed < timeout: await sleep(interval);
\* elapsed += interval.
PollSleep ==
    /\ clock # NoClock
    /\ ~clock.over
    /\ FLess(clock.elapsed, Seconds(clock.timeout))
    /\ clock' = [clock EXCEPT !.elapsed = FAdd(@, Interval), !.sleeps = @ + 1]
    /\ UNCHANGED <<coordVars, botVars, procVars, bufVars, others, username>>

\* The loop's test fails: the command goes on to its return.
PollExit ==
    /\ clock # NoClock
    /\ ~clock.over
    /\ ~FLess(clock.elapsed, Seconds(clock.timeout))
    /\ clock' = [clock EXCEPT !.over = TRUE]
    /\ UNCHANGED <<coordVars, botVars, procVars, bufVars, others, username>>

\* The command has returned; another may enter its loop.
PollReturn ==
    /\ clock # NoClock
    /\ clock.over
    /\ clock' = NoClock
    /\ UNCHANGED <<coordVars, botVars, procVars, bufVars, others, username>>

NextPolls ==
    \/ \E k \in 1..MaxSeconds : PollEnter(k)
    \/ PollSleep
    \/ PollExit
    \/ PollReturn

SpecPolls == InitLive /\ [][NextPolls]_vars

\* ============================================================== the claims
\* What a caller holds of its call; only the caller's own steps change it
\* while it is between calls.
Mine(p) ==
    <<pc[p], op[p], lbot[p], elapsed[p], tmo[p], ret[p], fx[p], replied[p], arg[p]>>

\* The step in which caller p invokes method o.
Calls(p, o) == pc[p] = "idle" /\ Mine(p)' # Mine(p) /\ op'[p] = o

\* The step in which method o of caller p runs inside the start/stop lock: at
\* the call when the lock is free, else when the caller is woken.
RunsLocked(p, o) ==
    \/ Calls(p, o) /\ pc'[p] # "lock_wait"
    \/ pc[p] = "lock_wait" /\ op[p] = o /\ pc'[p] # "lock_wait"

\* The step in which a command of caller p ends its wait and returns.
WaitEnds(p) == pc[p] \in {"req", "poll"} /\ pc'[p] = "idle"

\* The driving tasks that have not terminated.
LiveTasks == {s \in Sessions : taskState[s] \in {"running", "cancelling"}}

\* ---- C1
\* C1 as stated: while the coordinator holds a session that no stop() has
\* cleared, a start() constructs nothing and answers "bot already running".
C1_StartAfterFirstIsNoop ==
    [][\A p \in Procs :
          RunsLocked(p, "start") /\ bot # NoBot
          => /\ nbots' = nbots
             /\ ret'[p].message = "bot already running"]_vars

C1_AtMostOneLive ==
    /\ Cardinality(LiveTasks) <= 1
    /\ \A s \in LiveTasks : bot = s /\ task = s

C1_StartStep ==
    \A p \in Procs :
       RunsLocked(p, "start")
       => IF running /\ bot # NoBot
          THEN /\ ret'[p].message = "bot already running"
               /\ UNCHANGED <<bot, task, nbots, taskState>>
          ELSE /\ ret'[p] = [ok |-> TRUE, message |-> "bot started"]
               /\ nbots' = nbots + 1
               /\ bot' = nbots' /\ task' = nbots'
               /\ taskState' = [taskState EXCEPT ![nbots'] = "running"]

\* C1, amended: at most one driving task is live at any moment, and it is the
\* coordinator's; a start() that finds the handle live constructs nothing and
\* answers "bot already running"; a start() that finds no live handle (never
\* started, stopped, or the driving task ended by itself) constructs a session.
C1_OneLiveSession == []C1_AtMostOneLive /\ [][C1_StartStep]_vars

\* Two starts, the second of which found the first one's session live.
C1_Witness ==
    \E p, q \in Procs :
       /\ p # q /\ nbots = 1 /\ running
       /\ pc[p] = "idle" /\ op[p] = "start" /\ ret[p].message = "bot started"
       /\ pc[q] = "idle" /\ op[q] = "start"
       /\ ret[q].message = "bot already running"

\* ---- C2
C2_StopStep ==
    \A p \in Procs :
       /\ RunsLocked(p, "stop") /\ ~running
          => /\ pc'[p] = "idle"
             /\ ret'[p] = [ok |-> TRUE, message |-> "bot is not running"]
             /\ bot' = NoBot /\ task' = NoBot
       /\ (pc[p] # "idle" \/ Calls(p, "stop")) /\ op'[p] = "stop" /\ pc'[p] = "idle"
          => /\ ret'[p].ok
             /\ bot' = NoBot /\ task' = NoBot

\* C2: a stop() that finds no live handle (never started, stopped, or the
\* driving task ended) answers {ok: true, "bot is not running"} and leaves the
\* handle cleared; every stop() that returns leaves the handle cleared, so the
\* stop() after it finds no live handle.
C2_StopIsIdempotent == [][C2_StopStep]_vars

\* Two stops in a row on a started coordinator: one stopped the session, the
\* other found nothing running.
C2_Witness ==
    \E p, q \in Procs :
       /\ p # q /\ bot = NoBot /\ task = NoBot
       /\ pc[p] = "idle" /\ op[p] = "stop" /\ ret[p].message = "bot stopped"
       /\ pc[q] = "idle" /\ op[q] = "stop"
       /\ ret[q].message = "bot is not running"

\* ---- C3
\* C3: a status() that reads no session (before any start(), or after a
\* stop() with no later start()) returns {running: false} and nothing else.
C3_StatusWithoutSession ==
    \A p \in Procs :
       pc[p] = "idle" /\ op[p] = "status" /\ lbot[p] = NoBot
       => ret[p] = [running |-> FALSE]

\* A status() after a session was started and stopped.
C3_Witness ==
    \E p \in Procs :
       /\ nbots >= 1 /\ bot = NoBot
       /\ pc[p] = "idle" /\ op[p] = "status" /\ lbot[p] = NoBot
       /\ ret[p] = [running |-> FALSE]

\* ---- C4
\* C4 as stated: a join_room during which no join reply arrives returns
\* ok: false, and after as many poll sleeps as its timeout has intervals.
C4_JoinWithoutReplyTimesOut ==
    \A p \in Procs :
       /\ pc[p] = "idle" /\ op[p] = "join_room"
       /\ "request" \in fx[p] /\ ~replied[p]
       => ~ret[p].ok /\ elapsed[p] = tmo[p]

\* ---- C5
C5_GateStep ==
    \A p \in Procs :
       /\ Calls(p, "send_chat")
       /\ GetRunningBot # NoBot
       /\ is_logged_in[GetRunningBot]
       => /\ pc'[p] = "req"
          /\ lbot'[p] = GetRunningBot
          /\ fx'[p] = {"request"}
          /\ UNCHANGED <<coordVars, flagVars>>

C6_GateStep ==
    \A p \in Procs : \A o \in GatedCommands :
       Calls(p, o) /\ GetRunningBot = NoBot
       => /\ pc'[p] = "idle"
          /\ ret'[p] = [ok |-> FALSE, error |-> "bot is not running"]
          /\ fx'[p] = {}
          /\ UNCHANGED <<coordVars, botVars, bufVars>>

\* C6: a login-gated command called while no handle is live returns
\* {ok: false, error: "bot is not running"} in the step of the call, invokes
\* neither connect() nor login() nor a request, and changes nothing of the
\* coordinator or of the session.
C6_NotRunningFailsAtOnce == [][C6_GateStep]_vars

\* A command refused on a session whose driving task ended by itself.
C6_Witness ==
    \E p \in Procs :
       /\ bot # NoBot /\ TaskDone(task)
       /\ pc[p] = "idle" /\ op[p] = "create_room" /\ fx[p] = {}
       /\ ret[p] = [ok |-> FALSE, error |-> "bot is not running"]

\* ---- C7
\* The reply a command waits for is not there.
ReplyAbsent(o, b) ==
    \/ o = "search_rooms" /\ ~search_done[b]
    \/ o = "create_room" /\ create_resp[b] = None
    \/ o = "join_room" /\ join_resp[b] = None
    \/ o = "account_query" /\ acct[b] = Absent
    \/ o = "leave_room" /\ room[b] # None

\* C7 as stated: a room or account command whose wait, of one interval or
\* more, ends with its reply absent returns ok: false.
C7_AbsentReplyFails ==
    [][\A p \in Procs :
          WaitEnds(p) /\ tmo[p] >= 1 /\ ReplyAbsent(op[p], lbot[p])
          => ~ret'[p].ok]_vars

\* ---- C8
C8_ReplyStep ==
    \A p \in Procs :
       /\ WaitEnds(p) /\ op[p] = "create_room"
          => /\ ret'[p].response = create_resp[lbot[p]]
             /\ ret'[p].ok = (create_resp[lbot[p]] = "ChatRoomCreated")
       /\ WaitEnds(p) /\ op[p] = "join_room"
          => /\ ret'[p].response = join_resp[lbot[p]]
             /\ ret'[p].ok = (join_resp[lbot[p]] = "JoinedRoom")

\* C8: create_room returns the create reply it sees when its wait ends in
\* response, and ok: true exactly when that reply is "ChatRoomCreated";
\* join_room does the same with the join reply and "JoinedRoom"; no reply
\* (None) and every other reply give ok: false.
C8_OkIffMarker == [][C8_ReplyStep]_vars

\* A create_room that saw a reply other than the marker.
C8_Witness ==
    \E p \in Procs :
       /\ pc[p] = "idle" /\ op[p] = "create_room"
       /\ ret[p] = [ok |-> FALSE, response |-> "RoomAlreadyExist",
                    current_chatroom |-> None]

\* ---- C9
Min(a, b) == IF a <= b THEN a ELSE b

\* The last Min(n, cap) of n arrivals, oldest first.
LastArrivals(n, cap) == [i \in 1..Min(n, cap) |-> n - Min(n, cap) + i]

\* C9: the event buffer of every session holds at most 100 records, and they
\* are the latest min(n, 100) of the n events delivered, oldest first.
C9_EventBufferKeepsLast100 ==
    \A s \in Sessions :
       /\ Len(recent_events[s]) <= 100
       /\ [i \in 1..Len(recent_events[s]) |-> recent_events[s][i].Seq]
             = LastArrivals(ev_seen[s], 100)

\* 150 events were delivered and events 51 to 150 are kept.
C9_Witness ==
    \E s \in Sessions :
       /\ ev_seen[s] = 150
       /\ Len(recent_events[s]) = 100
       /\ recent_events[s][1].Seq = 51
       /\ recent_events[s][100].Seq = 150

\* ---- C10
\* C10: the chat buffer of every session holds at most 500 records, the
\* latest of those delivered, oldest first, and each has a ReceivedAt that is
\* the time of its receipt.
C10_ChatBufferStamped ==
    \A s \in Sessions :
       /\ Len(message_history[s]) <= 500
       /\ [i \in 1..Len(message_history[s]) |-> message_history[s][i].Content]
             = LastArrivals(msg_seen[s], 500)
       /\ \A i \in 1..Len(message_history[s]) :
             /\ "ReceivedAt" \in DOMAIN message_history[s][i]
             /\ message_history[s][i].ReceivedAt = message_history[s][i].Content

\* 501 messages were kept in turn, and the first was evicted.
C10_Witness ==
    \E s \in Sessions :
       /\ msg_seen[s] = 501
       /\ Len(message_history[s]) = 500
       /\ message_history[s][1].ReceivedAt = 2

\* ---- C11
C11_StatusStep ==
    \A p \in Procs :
       Calls(p, "status") /\ bot # NoBot
       => LET ms == ret'[p].members
              r  == others[bot]
          IN  /\ ret'[p].member_count = Len(ms)
              /\ Len(ms) = Len(r)
              /\ {ms[i] : i \in 1..Len(ms)} = {MemberSummary(r[i]) : i \in 1..Len(r)}
              /\ \A i, j \in 1..Len(ms) :
                    i < j => SortKey(ms[i]) <= SortKey(ms[j])
              /\ \A i, j \in 1..Len(ms) :
                    /\ ms[i].member_number \in {NoNumber, 0}
                    /\ ms[j].member_number > 0
                    => i < j

\* C11: the members of a status() are the roster's members at that step,
\* each once, in ascending order of member identifier with a missing
\* identifier counted as 0, so that a member with a missing or zero identifier
\* comes before every member with a positive one; member_count is the
\* length of the list.
C11_MembersSorted == [][C11_StatusStep]_vars

\* A status() whose roster was not in order: 3 was known before 1, and the
\* member without an identifier last.
C11_Witness ==
    \E p \in Procs :
       /\ pc[p] = "idle" /\ op[p] = "status" /\ lbot[p] # NoBot
       /\ others[lbot[p]] = <<[Key |-> 3, MemberNumber |-> 3],
                              [Key |-> 1, MemberNumber |-> 1],
                              [Key |-> 4, MemberNumber |-> NoNumber]>>
       /\ ret[p].member_count = 3
       /\ ret[p].members = <<[member_number |-> NoNumber, name |-> 4],
                             [member_number |-> 1, name |-> 1],
                             [member_number |-> 3, name |-> 3]>>

\* ---- C12
\* limit clamped to [1, cap].
Clamped(limit, cap) == IF limit < 1 THEN 1 ELSE IF limit > cap THEN cap ELSE limit

\* res is the most recent n entries of buf, or all of buf if it has fewer,
\* in buf's order.
IsMostRecent(res, buf, n) ==
    /\ Len(res) = Min(n, Len(buf))
    /\ \A i \in 1..Len(res) : res[i] = buf[Len(buf) - Len(res) + i]

C12_ReadStep ==
    \A p \in Procs :
       /\ Calls(p, "recent_events") /\ bot # NoBot
          => IsMostRecent(ret'[p].events, recent_events[bot],
                          Clamped(arg'[p], 100))
       /\ Calls(p, "get_chat_history") /\ GetRunningBot # NoBot
          => /\ ret'[p].ok
             /\ ret'[p].count = Len(ret'[p].messages)
             /\ IsMostRecent(ret'[p].messages, message_history[GetRunningBot],
                             Clamped(arg'[p], 500))

\* C12: for every limit, recent_events returns the most recent n events of
\* the buffer in arrival order, n being the limit clamped to [1, 100] (all
\* events if the buffer has fewer), and get_chat_history does the same with
\* the chat buffer and [1, 500].
C12_LimitsClamped == [][C12_ReadStep]_vars

\* A chat history asked with limit 0 on a full buffer gave the latest
\* message and nothing else.
C12_Witness ==
    \E p \in Procs :
       /\ pc[p] = "idle" /\ op[p] = "get_chat_history" /\ lbot[p] # NoBot
       /\ Len(message_history[lbot[p]]) = 500
       /\ arg[p] = 0 /\ ret[p].count = 1
       /\ ret[p].messages[1].Content = msg_seen[lbot[p]]

\* ---- C13
C13_StartStep ==
    \A p \in Procs :
       RunsLocked(p, "start")
       => IF running /\ bot # NoBot
          THEN /\ pc'[p] = "idle"
               /\ ret'[p] = [ok |-> TRUE, message |-> "bot already running",
                             member_number |-> player[bot]]
               /\ UNCHANGED <<bot, task, nbots, taskState, username, botVars,
                              others, bufVars>>
          ELSE /\ pc'[p] = "idle"
               /\ DOMAIN ret'[p] = {"ok", "message"}
               /\ ret'[p].ok
               /\ bot' = nbots + 1 /\ task' = bot'
               /\ taskState'[bot'] = "running"
               /\ username'[bot'] = arg'[p]
               /\ ~is_connected'[bot'] /\ ~is_logged_in'[bot']

\* C13: a start() that finds no live handle constructs the session with the
\* caller's credentials, launches its task and returns {ok: true, message}
\* in that same step, while the session is neither connected nor logged in;
\* a start() that finds the handle live returns ok, message and the member
\* number, and leaves the handle, the task and the session, its credentials
\* included, as they were.
C13_StartReturnsAtOnce == [][C13_StartStep]_vars

\* A start() with other credentials than the live session's was answered
\* "bot already running"; another start() constructed the session.
C13_Witness ==
    \E p, q \in Procs :
       /\ pc[p] = "idle" /\ op[p] = "start" /\ running /\ bot # NoBot
       /\ arg[p] # username[bot]
       /\ DOMAIN ret[p] = {"ok", "message", "member_number"}
       /\ pc[q] = "idle" /\ op[q] = "start"
       /\ ret[q] = [ok |-> TRUE, message |-> "bot started"]
       /\ arg[q] = username[bot]

\* ---- C14
C14_Awaiting ==
    \A p \in Procs :
       pc[p] = "stop_await"
       => /\ bot # NoBot /\ task = bot
          /\ taskState[task] \in {"cancelling", "cancelled"}

C14_StopStep ==
    \A p \in Procs :
       /\ RunsLocked(p, "stop") /\ running
          => /\ pc'[p] = "stop_await"
             /\ taskState'[task] = "cancelling"
             /\ UNCHANGED <<bot, task>>
       /\ pc[p] = "stop_await" /\ pc'[p] # "stop_await"
          => /\ taskState[task] = "cancelled"
             /\ pc'[p] = "idle"
             /\ ret'[p] = [ok |-> TRUE, message |-> "bot stopped"]
             /\ bot' = NoBot /\ task' = NoBot
             /\ ~running'
             /\ StatusResult' = [running |-> FALSE]

\* C14: a stop() that finds the handle live requests the cancellation of the
\* driving task and keeps the handle while it waits; it goes on only when the
\* task has terminated as cancelled, and then clears the handle and returns
\* {ok: true, message: "bot stopped"}, after which running() is false and
\* status() is {running: false}.
C14_StopAwaitsTask == []C14_Awaiting /\ [][C14_StopStep]_vars

\* A stop() returned "bot stopped" after the task was cancelled, and a
\* status() after it found no session.
C14_Witness ==
    \E p, q \in Procs :
       /\ nbots = 1 /\ taskState[1] = "cancelled" /\ bot = NoBot
       /\ pc[p] = "idle" /\ op[p] = "stop"
       /\ ret[p] = [ok |-> TRUE, message |-> "bot stopped"]
       /\ pc[q] = "idle" /\ op[q] = "status" /\ ret[q] = [running |-> FALSE]

\* ---- C15
\* A stop() is between its request to cancel and its clearing of the handle.
TearingDown == \E q \in Procs : pc[q] = "stop_await"

C15_OneAtATime ==
    /\ \A q \in Procs : pc[q] = "stop_await" => lockOwner = q
    /\ Cardinality({q \in Procs : pc[q] = "stop_await"}) <= 1
    /\ Cardinality({s \in Sessions : taskState[s] \in {"running", "cancelling"}}) <= 1

C15_LockStep ==
    /\ TearingDown
       => /\ nbots' = nbots
          /\ \A p \in Procs :
                /\ ~RunsLocked(p, "start")
                /\ Calls(p, "start") => pc'[p] = "lock_wait"
    /\ bot # NoBot /\ bot' = NoBot
       => taskState[bot] \in {"cancelled", "finished"}

\* C15: the stop() that tears a session down holds the lock; while it does, no
\* start() runs or constructs a session, and a start() called then waits for
\* the lock; a handle is cleared only when its task has terminated, so a
\* session constructed after the teardown is not cleared by it; and at most
\* one driving task is running or being cancelled at any moment.
C15_StartStopExclusive == []C15_OneAtATime /\ [][C15_LockStep]_vars

\* A start() waits for the lock while a stop() tears down a session whose
\* task has already terminated.
C15_Witness ==
    \E p, q \in Procs :
       /\ pc[q] = "stop_await" /\ taskState[bot] = "cancelled"
       /\ pc[p] = "lock_wait" /\ op[p] = "start"
       /\ lockWaiters = <<p>>

\* ---- C16
\* A caller between calls can always run status(), whoever holds the lock.
C16_NeverWaits == pc[StatusCaller] = "idle" => ENABLED Status(StatusCaller)

C16_StatusStep ==
    \A p \in Procs :
       Calls(p, "status")
       => /\ pc'[p] = "idle"
          /\ UNCHANGED <<coordVars, botVars, bufVars, others, username>>
          /\ bot = NoBot => ret'[p] = [running |-> FALSE]
          /\ bot # NoBot
             => /\ ret'[p].running = (taskState[task] \in {"running", "cancelling"})
                /\ ret'[p].connected = is_connected[bot]
                /\ ret'[p].logged_in = is_logged_in[bot]
                /\ ret'[p].player.member_number = player[bot]
                /\ ret'[p].chatroom = room[bot]
                /\ ret'[p].member_count = Len(others[bot])
                /\ ret'[p].recent_event_count = Len(recent_events[bot])

\* C16: status() can be run at any state by a caller that is between calls,
\* whether the lock is free or held by a stop() and whether or not a command
\* is waiting for its reply; it returns in the step of the call, leaves the
\* lock and everything else as it was, and every field of its snapshot is
\* the session's field at that one step.
C16_StatusNeverBlocks == []C16_NeverWaits /\ [][C16_StatusStep]_vars

\* A status() returned while a stop() held the lock and the task it awaits
\* had already terminated: the snapshot has the session, not running.
C16_Witness ==
    \E p, q \in Procs :
       /\ pc[q] = "stop_await" /\ lockOwner = q /\ taskState[bot] = "cancelled"
       /\ pc[p] = "idle" /\ op[p] = "status" /\ lbot[p] = bot
       /\ ret[p].running = FALSE /\ "connected" \in DOMAIN ret[p]

\* ---- C17
\* The step in which caller p invokes the client's login().
InvokesLogin(p) ==
    /\ pc'[p] \in {"gate_login", "login_login"}
    /\ pc[p] \notin {"gate_login", "login_login"}

\* C17 as stated: for every interleaving of login-gated commands and of the
\* coordinator's login(), the client's login() is not invoked on a session
\* while an earlier login request on it is pending.
C17_LoginOnceWhilePending ==
    [][\A p \in Procs :
          InvokesLogin(p) => ~login_requested[lbot'[p]]]_vars

\* ---- C18
GateTimedOut == [ok |-> FALSE, error |-> "login failed or timeout"]

\* The gate sleeps only while its timeout has not elapsed.
C18_GateSleepsWithinTimeout ==
    \A p \in Procs : pc[p] = "gate_poll" => elapsed[p] < GateTimeout

C18_GateStep ==
    \A p \in Procs :
       pc[p] = "gate_poll" /\ pc'[p] # "gate_poll"
       => IF is_logged_in[lbot[p]]
          THEN pc'[p] = "req" /\ "request" \in fx'[p]
          ELSE /\ elapsed'[p] = GateTimeout
               /\ pc'[p] = "idle"
               /\ ret'[p] = GateTimedOut
               /\ "request" \notin fx'[p]
               /\ UNCHANGED <<coordVars, botVars, bufVars>>

\* C18: the gate's loop sleeps at most as many intervals as its timeout has;
\* when it ends with the login flag false the command returns
\* {ok: false, error: "login failed or timeout"} as its result in that step,
\* its protocol request is not issued and nothing of the session changes;
\* when it ends with the flag true the command issues its request.
C18_GateTimeoutIsAResult ==
    []C18_GateSleepsWithinTimeout /\ [][C18_GateStep]_vars

\* A send_chat whose gate requested the login, slept out its timeout and
\* returned the error, on a session that is live and connected.
C18_Witness ==
    \E p \in Procs :
       /\ pc[p] = "idle" /\ op[p] = "send_chat" /\ ret[p] = GateTimedOut
       /\ elapsed[p] = GateTimeout
       /\ {"login", "sleep"} \subseteq fx[p] /\ "request" \notin fx[p]
       /\ running /\ lbot[p] = bot /\ is_connected[bot] /\ ~is_logged_in[bot]

\* ---- C19
C19_LeaveStep ==
    \A p \in Procs :
       /\ Calls(p, "leave_room")
          => /\ UNCHANGED <<coordVars, botVars>>
             /\ fx'[p] \subseteq {"request"}
             /\ GetRunningBot = NoBot
                => pc'[p] = "idle" /\ ret'[p] = NotRunningErr /\ fx'[p] = {}
             /\ GetRunningBot # NoBot /\ room[GetRunningBot] = None
                => pc'[p] = "idle" /\ ret'[p].ok /\ fx'[p] = {}
             /\ GetRunningBot # NoBot /\ room[GetRunningBot] # None
                => pc'[p] = "req" /\ fx'[p] = {"request"}
       /\ WaitEnds(p) /\ op[p] = "leave_room"
          => /\ fx'[p] \subseteq {"request", "sleep"}
             /\ elapsed'[p] <= tmo[p]
             /\ tmo[p] >= 1 => ret'[p].ok = (room[lbot[p]] = None)
             /\ ~ret'[p].ok => ret'[p].error = "leave timeout"

\* C19 as stated: leave_room invokes neither the gate nor connect() nor
\* login(); with no live session it returns "bot is not running"; with the
\* session in no room it returns ok: true and sends nothing; else it sends the
\* leave request and, when its wait of one interval or more ends, returns
\* ok: true if the room record is empty by then and ok: false "leave timeout"
\* if not.
C19_LeaveNeedsLiveSessionOnly == [][C19_LeaveStep]_vars

\* ---- C20
ReadOnlyOps == {"get_chat_history", "get_character_data",
                "get_room_member_detail", "get_current_room"}

\* The session's local cache has a character of member number n.
Cached(b, n) == player[b] = n \/ n \in RosterKeys(others[b])

\* C20 as stated: on a live session every read-only operation succeeds,
\* but for get_room_member_detail with a member number <= 0.
C20_ReadsSucceedOnLiveSession ==
    [][\A p \in Procs : \A o \in ReadOnlyOps :
          /\ Calls(p, o) /\ GetRunningBot # NoBot
          /\ ~(o = "get_room_member_detail" /\ arg'[p] <= 0)
          => ret'[p].ok]_vars

C20_ReadStep ==
    \A p \in Procs : \A o \in ReadOnlyOps :
       Calls(p, o)
       => /\ pc'[p] = "idle"
          /\ fx'[p] = {}
          /\ UNCHANGED <<coordVars, botVars, bufVars, others, username>>
          /\ GetRunningBot = NoBot => ret'[p] = NotRunningErr
          /\ GetRunningBot # NoBot
             => ret'[p].ok =
                  CASE o = "get_character_data" ->
                         arg'[p] <= 0 \/ Cached(GetRunningBot, arg'[p])
                    [] o = "get_room_member_detail" ->
                         arg'[p] > 0 /\ Cached(GetRunningBot, arg'[p])
                    [] OTHER -> TRUE

\* C20, amended: a read-only operation returns in the step of its call,
\* invokes neither connect() nor login() nor a sleep, and leaves the
\* coordinator, the session and its buffers unchanged, whether or not the
\* session is logged in; with no live session it returns "bot is not
\* running"; on a live session get_chat_history and get_current_room return
\* ok: true, get_character_data returns ok: true for a member number <= 0 and
\* else exactly when the member is in the local cache, and
\* get_room_member_detail returns ok: true exactly when the member number is
\* > 0 and the member is in the local cache.
C20_ReadsNeedLiveSessionOnly == [][C20_ReadStep]_vars

\* get_room_member_detail found a roster member on a live session whose
\* connection had dropped: not connected, not logged in.
C20_Witness ==
    \E p \in Procs :
       /\ pc[p] = "idle" /\ op[p] = "get_room_member_detail" /\ ret[p].ok
       /\ arg[p] > 0 /\ arg[p] # player[bot] /\ fx[p] = {}
       /\ running /\ lbot[p] = bot
       /\ ~is_connected[bot] /\ ~is_logged_in[bot]

\* ---- C21
\* ceil(timeout / 0.2) for a timeout of k whole seconds.
CeilIntervals(k) == 5 * k

\* C21 as stated: a polling loop whose reply never arrives performs at most
\* ceil(timeout / 0.2) sleeps before the command returns.
C21_SleepsAtMostCeil ==
    clock # NoClock => clock.sleeps <= CeilIntervals(clock.timeout)

\* ---- C22
\* The stop() that tore session b down has returned.
TornDown(b) == b # NoBot /\ taskState[b] = "cancelled" /\ bot # b

\* The step in which caller p invokes connect(), login() or its protocol
\* request on the session it holds.
InvokesClient(p) ==
    /\ pc'[p] \in {"gate_connect", "gate_login", "req"}
    /\ pc'[p] # pc[p]

\* C22 as stated: no command invokes connect(), login() or its protocol
\* request on a session after the stop() that tore it down has returned.
C22_NoUseAfterStop ==
    [][\A p \in Procs : InvokesClient(p) => ~TornDown(lbot'[p])]_vars

\* ---- C23
\* C23 as stated: a create_room that returns a reply returns one the callback
\* wrote while the call was waiting, after its request; and a create_room
\* during whose wait, of one interval or more, the success marker was
\* written returns ok: true, whatever other create_room calls run on the
\* session at the same time.
C23_CreateSeesItsReply ==
    [][\A p \in Procs :
          WaitEnds(p) /\ op[p] = "create_room"
          => /\ ret'[p].response # None => replied[p]
             /\ replied[p] /\ tmo[p] >= 1 => ret'[p].ok]_vars

=============================================================================
